---- MODULE Spec2Model ----
(***************************************************************************)
(* A model of padth_finder.py: the type registry built from the DIEs of    *)
(* each compile unit, the recursive finalize pass, the padding analysis    *)
(* (has_padding, get_padding_list) and the report loop of main().          *)
(*                                                                         *)
(* A type object is identified by the offset it is stored under in the     *)
(* `types` dict: main() never replaces an entry, so "the object            *)
(* types[n]" and "the offset n" name the same thing, and binding a raw     *)
(* reference n to types[n] is recorded by the node's `bound` flag.         *)
(* The DIE offset of the k-th record of the input is k.                    *)
(*                                                                         *)
(* Left out: the names of types and members (a PaddingDetails refers to a  *)
(* member by its index), the text of the printed lines, DW_TAG_class_type  *)
(* and DW_TAG_inheritance (treated by the code as structs and members),    *)
(* and the exit of main() on an object file without DWARF info.            *)
(* An exception ends the run: `err` names it and no action is enabled.     *)
(***************************************************************************)
EXTENDS Integers, Sequences, FiniteSets, TLC

\* ------------------------------------------------------------------ bounds
\* Number of DIE records of a graph input and of a unit input.
MaxTypes == 3
\* Number of DIE records of a full input.
MaxFull == 2
\* Number of DIE records of a chain input.
MaxChain == 4
\* Largest declared byte size of a struct of the layout inputs.
MaxStructSize == 5
\* Largest member offset of a struct of the layout inputs.
MaxMemberOffset == 3

\* --------------------------------------------------------- program constants
STATE_INITIAL == 0
STATE_IN_PROCESS == 1
STATE_FINALIZED == 2

\* Python's None, the byte_size Type.__init__ leaves in an Array or a Typedef.
None == -1

VARIABLES
    dies,    \* the input: the DIE records of the object file, in file order
    cus,     \* the input: the index of the last DIE of each compile unit
    perm,    \* the order in which the top-level loop visits types.values()
    types,   \* main's dict: offset -> type object
    keys,    \* the insertion order of the dict
    cu,      \* the compile unit being processed
    phase,   \* where main() is: build, resolve, table, diag, done
    i,       \* the index of the running top-level loop
    stack,   \* the active finalize calls, outermost first
    out,     \* the lines printed so far
    err,     \* the exception that ended the run, or "none"
    pass,    \* 1, or 2 in the second of two resolver runs that are compared
    first,   \* the outcome of the first of two resolver runs
    calls    \* history: how many times do_finalize of each type was called

vars == <<dies, cus, perm, types, keys, cu, phase, i, stack, out, err, pass, first, calls>>

\* ------------------------------------------------------------- the input
Die(tag, byte_size, members, type, upper_bounds) ==
    [tag |-> tag, byte_size |-> byte_size, members |-> members,
     type |-> type, upper_bounds |-> upper_bounds]

Member(offset, type_num) == [offset |-> offset, type_num |-> type_num]

PrimSizes == {1, 2}

UpperBoundLists == {<< >>, <<1>>, <<1, 2>>}

Base(s) == Die("DW_TAG_base_type", s, << >>, 0, << >>)

TypedefDies(R) == {Die("DW_TAG_typedef", 0, << >>, r, << >>) : r \in R}

ArrayDies(R, U) == {Die("DW_TAG_array_type", 0, << >>, r, ub) : r \in R, ub \in U}

\* Structs with one member at offset 0.
StructDies(R, S) ==
    {Die("DW_TAG_structure_type", s, <<Member(0, r)>>, 0, << >>) : s \in S, r \in R}

\* Structs with no member.
EmptyStructDies(S) == {Die("DW_TAG_structure_type", s, << >>, 0, << >>) : s \in S}

\* A DIE that is no type main() maps (a variable, a subprogram, a pointer ...).
OtherDie == Die("DW_TAG_variable", 0, << >>, 0, << >>)

\* Full inputs: one compile unit of MaxFull records of any tag, size and
\* dimensions, referencing any record or an offset past the last one, which
\* no record has.
FullDies ==
    LET R == 1..(MaxFull + 1)
    IN {Base(s) : s \in PrimSizes} \cup {OtherDie} \cup TypedefDies(R)
       \cup ArrayDies(R, UpperBoundLists) \cup StructDies(R, {1, 2})
       \cup EmptyStructDies({1, 2})

FullInputs == [1..MaxFull -> FullDies]

\* Graph inputs: one compile unit of MaxTypes records in any reference
\* pattern (forward, backward, cyclic), and the typedef of a missing type.
GraphDies ==
    LET R == 1..MaxTypes
    IN {Base(1)} \cup TypedefDies(R \cup {MaxTypes + 1}) \cup ArrayDies(R, {<<1>>})
       \cup StructDies(R, {1})

GraphInputs == [1..MaxTypes -> GraphDies]

\* Layout inputs: the primitives of PrimSizes followed by one struct of up to
\* two primitive members at any offsets, in any order, of any declared size.
LayoutMembers == {Member(o, r) : o \in 0..MaxMemberOffset, r \in 1..2}

LayoutStructDies ==
    {Die("DW_TAG_structure_type", s, ms, 0, << >>) :
        s \in 0..MaxStructSize,
        ms \in {<< >>} \cup {<<a>> : a \in LayoutMembers}
                 \cup {<<a, b>> : a \in LayoutMembers, b \in LayoutMembers}}

LayoutInputs == {<<Base(1), Base(2), d>> : d \in LayoutStructDies}

\* Unit inputs: MaxTypes records split in two compile units.
UnitDies ==
    {Base(1)} \cup TypedefDies(1..MaxTypes) \cup StructDies(1..MaxTypes, {1})

UnitInputs == [1..MaxTypes -> UnitDies]

\* Chain inputs: MaxChain records that reference later records only (no
\* cycle, no dangling reference), the last one a leaf.
ChainDiesAt(k) ==
    LET R == (k + 1)..MaxChain
    IN {Base(1)} \cup TypedefDies(R) \cup ArrayDies(R, {<<1>>}) \cup StructDies(R, {1})
       \cup EmptyStructDies({1})

ChainDies == UNION {ChainDiesAt(k) : k \in 1..MaxChain}

ChainInputs ==
    {d \in [1..MaxChain -> ChainDies] : \A k \in 1..MaxChain : d[k] \in ChainDiesAt(k)}

Identity(n) == [k \in 1..n |-> k]


\* -------------------------------------------------------- the type objects
\* Type.__init__, with the fields the four subclasses add.
Type ==
    [kind |-> "Type", byte_size |-> None, state |-> STATE_INITIAL,
     members |-> << >>, item_type |-> 0, dimensions |-> << >>, alias |-> 0,
     bound |-> FALSE]

Primitive(die) == [Type EXCEPT !.kind = "Primitive", !.byte_size = die.byte_size]

Struct(die) ==
    [Type EXCEPT !.kind = "Struct", !.byte_size = die.byte_size,
                 !.members = die.members]

Array(die) ==
    [Type EXCEPT !.kind = "Array", !.item_type = die.type,
                 !.dimensions = [k \in DOMAIN die.upper_bounds |->
                                     die.upper_bounds[k] + 1]]

Typedef(die) == [Type EXCEPT !.kind = "Typedef", !.alias = die.type]

\* main's common_types table.
CommonTags ==
    {"DW_TAG_structure_type", "DW_TAG_base_type", "DW_TAG_typedef", "DW_TAG_array_type"}

NewType(die) ==
    CASE die.tag = "DW_TAG_structure_type" -> Struct(die)
      [] die.tag = "DW_TAG_base_type" -> Primitive(die)
      [] die.tag = "DW_TAG_typedef" -> Typedef(die)
      [] die.tag = "DW_TAG_array_type" -> Array(die)

\* The offsets lo..hi whose DIE is a mapped type, ascending.
RECURSIVE MappedOffsets(_, _, _)
MappedOffsets(D, lo, hi) ==
    IF lo > hi THEN << >>
    ELSE IF D[lo].tag \in CommonTags THEN <<lo>> \o MappedOffsets(D, lo + 1, hi)
    ELSE MappedOffsets(D, lo + 1, hi)

Range(s) == {s[k] : k \in DOMAIN s}

\* ------------------------------------------------------- padding analysis
RECURSIVE SumSizes(_, _, _)
\* sum(map(lambda dm: dm[1].byte_size, members[k..])), all sizes being numbers.
SumSizes(T, ms, k) ==
    IF k > Len(ms) THEN 0 ELSE T[ms[k].type_num].byte_size + SumSizes(T, ms, k + 1)

\* A member whose byte_size is None makes the sum raise TypeError.
SumRaises(T, ms) == \E k \in DOMAIN ms : T[ms[k].type_num].byte_size = None

\* has_padding of types[o]: "True", "False", or the exception it raises.
\* `path` holds the nodes whose has_padding is being evaluated: the methods
\* are pure, so a call of one of them never returns (RecursionError).
RECURSIVE has_padding(_, _, _)
RECURSIVE AnyPadding(_, _, _, _)

\* any(map(lambda dm: dm[1].has_padding(), members[k..])): stops at the first
\* True, raises what a member raises.
AnyPadding(T, ms, k, path) ==
    IF k > Len(ms) THEN "False"
    ELSE LET r == has_padding(T, ms[k].type_num, path)
         IN IF r = "False" THEN AnyPadding(T, ms, k + 1, path) ELSE r

\* Struct.has_padding without the comparison of the sizes.
StructHasPaddingMembersOnly(T, o, path) ==
    IF SumRaises(T, T[o].members) THEN "TypeError"
    ELSE AnyPadding(T, T[o].members, 1, path)

StructHasPadding(T, o, path) ==
    IF SumRaises(T, T[o].members) THEN "TypeError"
    ELSE IF T[o].byte_size # SumSizes(T, T[o].members, 1) THEN "True"
    ELSE AnyPadding(T, T[o].members, 1, path)

\* has_padding without the override of Array: an array answers as Type does.
has_paddingNoArray(T, o, path) ==
    IF o \in path THEN "RecursionError"
    ELSE IF T[o].kind = "Struct" THEN StructHasPadding(T, o, path \cup {o})
    ELSE IF T[o].kind = "Typedef" THEN has_padding(T, T[o].alias, path \cup {o})
    ELSE "False"

has_padding(T, o, path) ==
    IF o \in path THEN "RecursionError"
    ELSE IF T[o].kind = "Struct" THEN StructHasPadding(T, o, path \cup {o})
    ELSE IF T[o].kind = "Array" THEN has_padding(T, T[o].item_type, path \cup {o})
    ELSE IF T[o].kind = "Typedef" THEN has_padding(T, T[o].alias, path \cup {o})
    ELSE "False"

HasPadding(T, o) == has_padding(T, o, {})

\* PaddingDetails(prev_field, next_field): the members by their index in the
\* struct, next_field 0 for None.
PaddingDetails(prev_field, next_field) ==
    [prev_field |-> prev_field, next_field |-> next_field]

\* pad_size with the size of the member left out.
PadSizeNoType(T, ms, k) == ms[k + 1].offset - ms[k].offset

\* pad_size of the adjacent pair (k, k+1).
PadSize(T, ms, k) ==
    ms[k + 1].offset - ms[k].offset - T[ms[k].type_num].byte_size

\* trailing_pad_size.
TrailingPadSize(T, o) ==
    LET ms == T[o].members
        last_member == ms[Len(ms)]
    IN T[o].byte_size - (last_member.offset + T[last_member.type_num].byte_size)

RECURSIVE FieldPads(_, _, _)
\* The loop over range(len(members) - 1), from index k on.
FieldPads(T, ms, k) ==
    IF k > Len(ms) - 1 THEN << >>
    ELSE (IF PadSize(T, ms, k) > 0 THEN <<PaddingDetails(k, k + 1)>> ELSE << >>)
         \o FieldPads(T, ms, k + 1)

\* Struct.get_padding_list: [err, pads]. members[-1] of an empty list raises
\* IndexError; a member size of None raises TypeError in the subtraction.
StructPaddingList(T, o) ==
    LET ms == T[o].members
    IN IF Len(ms) = 0 THEN [err |-> "IndexError", pads |-> << >>]
       ELSE IF SumRaises(T, ms) THEN [err |-> "TypeError", pads |-> << >>]
       ELSE [err |-> "none",
             pads |-> FieldPads(T, ms, 1)
                      \o (IF TrailingPadSize(T, o) > 0
                          THEN <<PaddingDetails(Len(ms), 0)>> ELSE << >>)]

get_padding_list(T, o) ==
    IF T[o].kind = "Struct" THEN StructPaddingList(T, o)
    ELSE [err |-> "none", pads |-> << >>]


\* ------------------------------------------------------------ the resolver
Frame(o) == [node |-> o, idx |-> 1]

\* finalize without the STATE_IN_PROCESS check: a type being resolved is
\* taken for a resolved one.
finalizeNoCycleCheck(T, stk, o) ==
    IF T[o].state # STATE_INITIAL
    THEN [types |-> T, stack |-> stk, err |-> "none"]
    ELSE [types |-> [T EXCEPT ![o].state = STATE_IN_PROCESS],
          stack |-> Append(stk, Frame(o)), err |-> "none"]

\* finalize without the STATE_FINALIZED check: a resolved type is resolved
\* again.
finalizeNoMemo(T, stk, o) ==
    IF T[o].state = STATE_IN_PROCESS
    THEN [types |-> T, stack |-> stk, err |-> "RuntimeError"]
    ELSE [types |-> [T EXCEPT ![o].state = STATE_IN_PROCESS],
          stack |-> Append(stk, Frame(o)), err |-> "none"]

\* Type.finalize up to the call of do_finalize: the state checks, and the
\* mark. The call is pushed on `stk`, the stack of the caller.
finalize(T, stk, o) ==
    IF T[o].state = STATE_FINALIZED
    THEN [types |-> T, stack |-> stk, err |-> "none"]
    ELSE IF T[o].state = STATE_IN_PROCESS
    THEN [types |-> T, stack |-> stk, err |-> "RuntimeError"]
    ELSE [types |-> [T EXCEPT ![o].state = STATE_IN_PROCESS],
          stack |-> Append(stk, Frame(o)), err |-> "none"]

RECURSIVE Product(_, _)
\* for d in self.dimensions: self.byte_size *= d
Product(ds, k) == IF k > Len(ds) THEN 1 ELSE ds[k] * Product(ds, k + 1)

\* The size with the first dimension only.
ArraySizeFirstDim(item_size, ds) == item_size * ds[1]

\* self.byte_size after the loop over the dimensions.
ArraySize(item_size, ds) == item_size * Product(ds, 1)

\* Array.do_finalize: [types, err]. None * d raises TypeError, after the item
\* type was bound and its None copied.
ArrayDoFinalizeBody(T, o) ==
    IF Len(T[o].dimensions) = 0 THEN [types |-> T, err |-> "AssertionError"]
    ELSE IF T[o].item_type \notin DOMAIN T THEN [types |-> T, err |-> "KeyError"]
    ELSE LET item_size == T[T[o].item_type].byte_size
         IN IF item_size = None
            THEN [types |-> [T EXCEPT ![o].bound = TRUE, ![o].byte_size = None],
                  err |-> "TypeError"]
            ELSE [types |-> [T EXCEPT ![o].bound = TRUE,
                                      ![o].byte_size = ArraySize(item_size, T[o].dimensions)],
                  err |-> "none"]

\* Typedef.do_finalize without the copy of the size.
TypedefDoFinalizeBodyNoSize(T, o) ==
    IF T[o].alias \notin DOMAIN T THEN [types |-> T, err |-> "KeyError"]
    ELSE [types |-> [T EXCEPT ![o].bound = TRUE], err |-> "none"]

\* Typedef.do_finalize with a lookup that skips a missing alias.
TypedefDoFinalizeBodySkipMissing(T, o) ==
    IF T[o].alias \notin DOMAIN T
    THEN [types |-> [T EXCEPT ![o].bound = TRUE], err |-> "none"]
    ELSE [types |-> [T EXCEPT ![o].bound = TRUE,
                              ![o].byte_size = T[T[o].alias].byte_size],
          err |-> "none"]

\* Typedef.do_finalize: [types, err]. The alias is looked up, not finalized.
TypedefDoFinalizeBody(T, o) ==
    IF T[o].alias \notin DOMAIN T THEN [types |-> T, err |-> "KeyError"]
    ELSE [types |-> [T EXCEPT ![o].bound = TRUE,
                              ![o].byte_size = T[T[o].alias].byte_size],
          err |-> "none"]

\* Line 47 with the wrong constant: the state is set back.
FinalizedAsInitial(T, o) == [T EXCEPT ![o].state = STATE_INITIAL]

\* Line 47 left out: the state stays STATE_IN_PROCESS.
FinalizedLeftOut(T, o) == T

\* self.state = STATE_FINALIZED, and the return to the caller.
Finalized(T, o) == [T EXCEPT ![o].state = STATE_FINALIZED]

Pop(stk) == SubSeq(stk, 1, Len(stk) - 1)

\* The history of the do_finalize calls after a finalize of types[o] that
\* turned the caller's stack `stk` into `stk2`: line 45 was reached iff a
\* call was pushed.
Called(c, stk, stk2, o) ==
    IF Len(stk2) > Len(stk) THEN [c EXCEPT ![o] = @ + 1] ELSE c

Top == stack[Len(stack)]

Running == err = "none"

\* ------------------------------------------------------------- the output
Line(text, c, o, size, padded, pad) ==
    [text |-> text, cu |-> c, type |-> o, size |-> size, padded |-> padded, pad |-> pad]

NoPad == PaddingDetails(0, 0)

PadLines(c, o, pads) == [k \in DOMAIN pads |-> Line("pad", c, o, 0, TRUE, pads[k])]

\* The first and the last DIE of compile unit c.
FirstDie(c) == IF c = 1 THEN 1 ELSE cus[c - 1] + 1
LastDie(c) == cus[c]

\* -------------------------------------------------------------- the actions
\* Lines 210-234: the DIEs of the unit are mapped into `types`.
BuildCU ==
    /\ Running /\ phase = "build"
    /\ LET new == MappedOffsets(dies, FirstDie(cu), LastDie(cu))
       IN IF \E k \in DOMAIN new : new[k] \in DOMAIN types
          THEN /\ err' = "AssertionError"
               /\ UNCHANGED <<types, keys, phase, i>>
          ELSE /\ types' = [o \in DOMAIN types \cup Range(new) |->
                               IF o \in DOMAIN types THEN types[o] ELSE NewType(dies[o])]
               /\ keys' = keys \o new
               /\ phase' = "resolve"
               /\ i' = 1
               /\ err' = err
    /\ out' = Append(out, Line("processing", cu, 0, 0, FALSE, NoPad))
    /\ UNCHANGED <<dies, cus, perm, cu, stack, pass, first, calls>>

\* Line 236-237: the next t.finalize(types) of the top-level loop.
FinalizeTop ==
    /\ Running /\ phase = "resolve" /\ stack = << >> /\ i <= Len(keys)
    /\ LET r == finalize(types, << >>, keys[perm[i]])
       IN /\ types' = r.types
          /\ stack' = r.stack
          /\ err' = r.err
          /\ i' = IF r.err = "none" THEN i + 1 ELSE i
          /\ calls' = Called(calls, << >>, r.stack, keys[perm[i]])
    /\ UNCHANGED <<dies, cus, perm, keys, cu, phase, out, pass, first>>

\* Lines 106-108: the next member of Struct.do_finalize: the lookup of its
\* type and the call of its finalize.
StructMember ==
    /\ Running /\ stack # << >>
    /\ types[Top.node].kind = "Struct"
    /\ Top.idx <= Len(types[Top.node].members)
    /\ LET type_num == types[Top.node].members[Top.idx].type_num
           caller == [stack EXCEPT ![Len(stack)].idx = @ + 1]
       IN IF type_num \notin DOMAIN types
          THEN /\ err' = "KeyError"
               /\ UNCHANGED <<types, stack, calls>>
          ELSE LET r == finalize(types, caller, type_num)
               IN /\ types' = r.types
                  /\ stack' = IF r.err = "none" THEN r.stack ELSE stack
                  /\ err' = r.err
                  /\ calls' = Called(calls, caller, r.stack, type_num)
    /\ UNCHANGED <<dies, cus, perm, keys, cu, phase, i, out, pass, first>>

\* Line 110 and line 47: the members are replaced by the bound ones, and the
\* struct is Finalized.
StructReturn ==
    /\ Running /\ stack # << >>
    /\ types[Top.node].kind = "Struct"
    /\ Top.idx > Len(types[Top.node].members)
    /\ types' = Finalized([types EXCEPT ![Top.node].bound = TRUE], Top.node)
    /\ stack' = Pop(stack)
    /\ UNCHANGED <<dies, cus, perm, keys, cu, phase, i, out, err, pass, first, calls>>

\* Array.do_finalize and line 47.
ArrayDoFinalize ==
    /\ Running /\ stack # << >>
    /\ types[Top.node].kind = "Array"
    /\ LET r == ArrayDoFinalizeBody(types, Top.node)
       IN /\ err' = r.err
          /\ types' = IF r.err = "none" THEN Finalized(r.types, Top.node) ELSE r.types
          /\ stack' = IF r.err = "none" THEN Pop(stack) ELSE stack
    /\ UNCHANGED <<dies, cus, perm, keys, cu, phase, i, out, pass, first, calls>>

\* Typedef.do_finalize and line 47.
TypedefDoFinalize ==
    /\ Running /\ stack # << >>
    /\ types[Top.node].kind = "Typedef"
    /\ LET r == TypedefDoFinalizeBody(types, Top.node)
       IN /\ err' = r.err
          /\ types' = IF r.err = "none" THEN Finalized(r.types, Top.node) ELSE r.types
          /\ stack' = IF r.err = "none" THEN Pop(stack) ELSE stack
    /\ UNCHANGED <<dies, cus, perm, keys, cu, phase, i, out, pass, first, calls>>

\* Type.do_finalize (a Primitive has no other) and line 47.
PrimitiveDoFinalize ==
    /\ Running /\ stack # << >>
    /\ types[Top.node].kind = "Primitive"
    /\ types' = Finalized(types, Top.node)
    /\ stack' = Pop(stack)
    /\ UNCHANGED <<dies, cus, perm, keys, cu, phase, i, out, err, pass, first, calls>>

\* Lines 239-241: the top-level loop is over, the table header is printed.
ResolveDone ==
    /\ Running /\ phase = "resolve" /\ stack = << >> /\ i > Len(keys)
    /\ out' = Append(out, Line("header", cu, 0, 0, FALSE, NoPad))
    /\ phase' = "table"
    /\ i' = 1
    /\ UNCHANGED <<dies, cus, perm, types, keys, cu, stack, err, pass, first, calls>>

\* Lines 242-244: one row of the size table.
TableRow ==
    /\ Running /\ phase = "table" /\ i <= Len(keys)
    /\ LET o == keys[i]
           padded == HasPadding(types, o)
       IN IF padded \in {"True", "False"}
          THEN /\ out' = Append(out, Line("row", cu, o, types[o].byte_size,
                                          padded = "True", NoPad))
               /\ i' = i + 1
               /\ err' = err
          ELSE /\ err' = padded
               /\ UNCHANGED <<out, i>>
    /\ UNCHANGED <<dies, cus, perm, types, keys, cu, phase, stack, pass, first, calls>>

\* Lines 245-246: the rule under the table.
TableDone ==
    /\ Running /\ phase = "table" /\ i > Len(keys)
    /\ out' = Append(out, Line("rule", cu, 0, 0, FALSE, NoPad))
    /\ phase' = "diag"
    /\ i' = 1
    /\ UNCHANGED <<dies, cus, perm, types, keys, cu, stack, err, pass, first, calls>>

\* Lines 247-251: one type of the diagnostics loop: nothing for a type without
\* padding, else the "Found padded type" line and one line per gap.
DiagEntry ==
    /\ Running /\ phase = "diag" /\ i <= Len(keys)
    /\ LET o == keys[i]
           padded == HasPadding(types, o)
           found == Line("found", cu, o, 0, TRUE, NoPad)
       IN IF padded = "False"
          THEN /\ i' = i + 1
               /\ UNCHANGED <<out, err>>
          ELSE IF padded = "True"
          THEN LET r == get_padding_list(types, o)
               IN IF r.err = "none"
                  THEN /\ out' = Append(out, found) \o PadLines(cu, o, r.pads)
                       /\ i' = i + 1
                       /\ err' = err
                  ELSE /\ out' = Append(out, found)
                       /\ err' = r.err
                       /\ i' = i
          ELSE /\ err' = padded
               /\ UNCHANGED <<out, i>>
    /\ UNCHANGED <<dies, cus, perm, types, keys, cu, phase, stack, pass, first, calls>>

\* Line 209: the next compile unit, or the end of main().
DiagDone ==
    /\ Running /\ phase = "diag" /\ i > Len(keys)
    /\ IF cu < Len(cus)
       THEN /\ cu' = cu + 1
            /\ phase' = "build"
       ELSE /\ cu' = cu
            /\ phase' = "done"
    /\ UNCHANGED <<dies, cus, perm, types, keys, i, stack, out, err, pass, first, calls>>

\* ------------------------------------------------------- the specification
\* Line 205: types = {}, once, before the loop over the compile units.
Start ==
    /\ types = << >>
    /\ keys = << >>
    /\ cu = 1
    /\ phase = "build"
    /\ i = 1
    /\ stack = << >>
    /\ out = << >>
    /\ err = "none"
    /\ pass = 1
    /\ first = << >>
    /\ calls = [o \in DOMAIN dies |-> 0]

Init ==
    /\ \/ dies \in FullInputs /\ cus = <<MaxFull>>
       \/ dies \in GraphInputs /\ cus = <<MaxTypes>>
       \/ dies \in LayoutInputs /\ cus = <<3>>
       \/ dies \in UnitInputs /\ cus \in {<<c, MaxTypes>> : c \in 1..(MaxTypes - 1)}
       \/ dies \in ChainInputs /\ cus = <<MaxChain>>
    /\ perm = Identity(Len(dies))
    /\ Start

Next ==
    \/ BuildCU
    \/ FinalizeTop
    \/ StructMember
    \/ StructReturn
    \/ ArrayDoFinalize
    \/ TypedefDoFinalize
    \/ PrimitiveDoFinalize
    \/ ResolveDone
    \/ TableRow
    \/ TableDone
    \/ DiagEntry
    \/ DiagDone

Spec == Init /\ [][Next]_vars


\* --------------------------------------------- two resolver runs, compared
\* Inputs of the comparison: one compile unit, every record a type, no
\* dangling reference.
OrderDies ==
    LET R == 1..MaxTypes
    IN {Base(1)} \cup TypedefDies(R) \cup ArrayDies(R, {<<1>>}) \cup StructDies(R, {1, 2})
       \cup EmptyStructDies({1, 2})

OrderInputs == [1..MaxTypes -> OrderDies]

\* The resolver pass of the current unit has ended: it raised, or the loop of
\* lines 236-237 is over and nothing else has run yet.
ResolverFailed == phase = "resolve" /\ err # "none"
ResolverCompleted == phase = "table" /\ i = 1 /\ err = "none"

\* What a resolver run ends with: the error, or the sizes and padding flags.
Outcome ==
    [err |-> err,
     sizes |-> IF err = "none" THEN [o \in DOMAIN types |-> types[o].byte_size] ELSE << >>,
     padding |-> IF err = "none" THEN [o \in DOMAIN types |-> HasPadding(types, o)]
                 ELSE << >>]

\* The registry is built again from the same records, and the top-level loop
\* of lines 236-237 run over it in another order.
Rerun ==
    /\ pass = 1
    /\ ResolverFailed \/ ResolverCompleted
    /\ first' = <<Outcome>>
    /\ pass' = 2
    /\ \E p \in Permutations(1..Len(keys)) : perm' = p
    /\ types' = [o \in DOMAIN types |-> NewType(dies[o])]
    /\ phase' = "resolve"
    /\ i' = 1
    /\ stack' = << >>
    /\ err' = "none"
    /\ out' = <<Line("processing", cu, 0, 0, FALSE, NoPad)>>
    /\ calls' = [o \in DOMAIN dies |-> 0]
    /\ UNCHANGED <<dies, cus, keys, cu>>

InitOrder ==
    /\ dies \in OrderInputs /\ cus = <<MaxTypes>>
    /\ perm = Identity(Len(dies))
    /\ Start

NextOrder == Next \/ Rerun

SpecOrder == InitOrder /\ [][NextOrder]_vars


\* ------------------------------------------------------------- the claims
\* The offsets types[o] references: the types of its members, its item type,
\* its alias.
Targets(T, o) ==
    IF T[o].kind = "Struct" THEN {T[o].members[k].type_num : k \in DOMAIN T[o].members}
    ELSE IF T[o].kind = "Array" THEN {T[o].item_type}
    ELSE IF T[o].kind = "Typedef" THEN {T[o].alias}
    ELSE {}

RECURSIVE ReachableIn(_, _, _)
\* The nodes reached from the set S in at most n further steps.
ReachableIn(T, S, n) ==
    IF n = 0 THEN S
    ELSE ReachableIn(T, S \cup UNION {Targets(T, o) : o \in S \cap DOMAIN T}, n - 1)

\* The nodes types[o] references, directly or not.
Reachable(T, o) == ReachableIn(T, Targets(T, o), Cardinality(DOMAIN T)) \cap DOMAIN T

HasCycle(T) == \E o \in DOMAIN T : o \in Reachable(T, o)

\* The top-level loop of the current unit, or of an earlier one, ran to its
\* end without an exception.
ResolutionCompleted == phase \in {"table", "diag", "done"}

Structs(T) == {o \in DOMAIN T : T[o].kind = "Struct"}
Arrays(T) == {o \in DOMAIN T : T[o].kind = "Array"}
Typedefs(T) == {o \in DOMAIN T : T[o].kind = "Typedef"}

\* C1: a resolver run over a registry whose reference graph has a cycle
\* (through fields, item types or aliases) fails with the cycle error: it
\* never completes resolution normally.
C1_CycleNeverCompletes == HasCycle(types) => ~ResolutionCompleted

\* C2: the order of the top-level loop does not affect the result: a second
\* run over the same registry in any other order ends with the outcome of
\* the run in insertion order (the error, or every byte_size and has_padding).
\* It is stated for the registries without a cycle: those of OrderInputs
\* have no other fault an order could meet first (no dangling reference, no
\* array without dimensions).
C2_OrderIndependent ==
    (pass = 2 /\ (ResolverFailed \/ ResolverCompleted) /\ ~HasCycle(types))
        => Outcome = first[1]

\* The sum of the gaps of a gap list: pad_size of an inter-field record,
\* trailing_pad_size of the trailing one.
RECURSIVE GapSum(_, _, _, _)
GapSum(T, o, pads, k) ==
    IF k > Len(pads) THEN 0
    ELSE (IF pads[k].next_field = 0 THEN TrailingPadSize(T, o)
          ELSE PadSize(T, T[o].members, pads[k].prev_field))
         + GapSum(T, o, pads, k + 1)

Decomposes(T, o) ==
    LET r == get_padding_list(T, o)
    IN /\ r.err = "none"
       /\ T[o].byte_size = SumSizes(T, T[o].members, 1) + GapSum(T, o, r.pads, 1)

\* C3 as stated: every resolved struct (its members sized) decomposes into
\* its members' sizes, its inter-field gaps and its trailing gap.
C3_SizeDecomposition ==
    \A o \in Structs(types) :
        (types[o].state = STATE_FINALIZED /\ Len(types[o].members) > 0
         /\ ~SumRaises(types, types[o].members)) => Decomposes(types, o)

\* The layout of a struct is packed in order: the first member at offset 0,
\* each next member at or after the end of the one before, the last member
\* ending within the declared size.
OrderedLayout(T, o) ==
    LET ms == T[o].members
        end(k) == ms[k].offset + T[ms[k].type_num].byte_size
    IN /\ Len(ms) > 0
       /\ ~SumRaises(T, ms)
       /\ ms[1].offset = 0
       /\ \A k \in 1..(Len(ms) - 1) : ms[k + 1].offset >= end(k)
       /\ T[o].byte_size >= end(Len(ms))

\* C3, amended: a resolved struct whose layout is packed in order decomposes
\* into its members' sizes, its inter-field gaps and its trailing gap,
\* whether or not it has padding.
C3_OrderedDecomposition ==
    \A o \in Structs(types) :
        (types[o].state = STATE_FINALIZED /\ OrderedLayout(types, o))
            => Decomposes(types, o)

C3_Witness ==
    \E o \in Structs(types) :
        /\ types[o].state = STATE_FINALIZED
        /\ OrderedLayout(types, o)
        /\ Len(get_padding_list(types, o).pads) = 2
        /\ HasPadding(types, o) = "True"

\* C4: after a resolver run without error every typedef has the byte_size
\* and the has_padding of its alias.
C4_TypedefPassThrough ==
    ResolutionCompleted =>
        \A o \in Typedefs(types) :
            /\ types[o].byte_size = types[types[o].alias].byte_size
            /\ HasPadding(types, o) = HasPadding(types, types[o].alias)

\* C5: after a resolver run without error every array has the byte_size of
\* its item type times the product of its dimensions, wherever the item type
\* is in the registry.
C5_ArraySize ==
    ResolutionCompleted =>
        \A o \in Arrays(types) :
            /\ types[o].byte_size # None
            /\ types[types[o].item_type].byte_size # None
            /\ types[o].byte_size =
                   types[types[o].item_type].byte_size * Product(types[o].dimensions, 1)

C5_Witness ==
    /\ ResolutionCompleted
    /\ \E o \in Arrays(types) :
          /\ types[o].item_type > o
          /\ Len(types[o].dimensions) = 2
          /\ types[o].byte_size = 12


\* C6: the gap list of a Finalized struct with no fields is the empty list,
\* computed without a failure, whatever its declared size.
C6_EmptyStructNoGaps ==
    \A o \in Structs(types) :
        (types[o].state = STATE_FINALIZED /\ Len(types[o].members) = 0)
            => get_padding_list(types, o) = [err |-> "none", pads |-> << >>]

\* The types built from the records of compile unit c.
UnitTypes(c) == Range(MappedOffsets(dies, FirstDie(c), LastDie(c)))

ReportLines == {"row", "found", "pad"}

\* C7: compile units share no state: the registry a unit is resolved and
\* reported against holds exactly the types of that unit's records, and no
\* line of a unit's report is about a type of another unit.
C7_RegistryPerUnit ==
    /\ phase \in {"resolve", "table", "diag"} => Range(keys) = UnitTypes(cu)
    /\ \A k \in DOMAIN out :
          out[k].text \in ReportLines => out[k].type \in UnitTypes(out[k].cu)

\* Struct a has a field of type struct b, and b a field of type a.
MutualStructs(T) ==
    \E a \in Structs(T) : \E b \in Structs(T) \ {a} :
        b \in Targets(T, a) /\ a \in Targets(T, b)

\* No line of the report of unit c was printed.
NoOutput(c) == \A k \in DOMAIN out : out[k].cu = c => out[k].text \notin ReportLines

\* C8 as stated: with structs A and B containing each other, resolution
\* fails with the cycle error and prints no report.
C8_MutualStructsCycleError ==
    MutualStructs(types) =>
        /\ phase = "resolve"
        /\ err \in {"none", "RuntimeError"}
        /\ NoOutput(cu)

\* Every node is a struct or a primitive, and every member type is in the
\* registry: finalize can raise nothing but the cycle error.
OnlyStructs(T) ==
    \A o \in DOMAIN T :
        /\ T[o].kind \in {"Struct", "Primitive"}
        /\ Targets(T, o) \subseteq DOMAIN T

\* C8, amended: with structs A and B containing each other, resolution never
\* completes and prints no report of the unit; the exception that ends it is
\* one finalize raises, and it is the cycle error when no other node of the
\* registry can raise another.
C8_MutualStructsFail ==
    MutualStructs(types) =>
        /\ phase = "resolve"
        /\ err \in {"none", "RuntimeError", "KeyError", "AssertionError", "TypeError"}
        /\ OnlyStructs(types) => err \in {"none", "RuntimeError"}
        /\ NoOutput(cu)

C8_Witness ==
    /\ MutualStructs(types)
    /\ OnlyStructs(types)
    /\ err = "RuntimeError"
    /\ Len(stack) = 2

\* The struct's own layout wastes bytes, or a member's type has padding.
PaddingRule(T, o) ==
    \/ T[o].byte_size # SumSizes(T, T[o].members, 1)
    \/ \E k \in DOMAIN T[o].members : HasPadding(T, T[o].members[k].type_num) = "True"

\* C9: a Finalized struct has padding exactly when its declared size differs
\* from the sum of its members' sizes or a member's type has padding, and so
\* every type that contains a padded struct, at any depth, is flagged. It is
\* stated for the registries without a cycle.
C9_PaddingPropagation ==
    (ResolutionCompleted /\ ~HasCycle(types)) =>
        /\ \A o \in Structs(types) :
              ~SumRaises(types, types[o].members) =>
                  (HasPadding(types, o) = "True" <=> PaddingRule(types, o))
        /\ \A o \in DOMAIN types :
              (\E p \in Reachable(types, o) :
                  types[p].kind = "Struct" /\ HasPadding(types, p) = "True")
                  => HasPadding(types, o) = "True"

\* The gap list the rule describes: the adjacent pairs with a gap above 0,
\* in field order, then the trailing record if the trailing gap is above 0.
GapListRule(T, o, pads) ==
    LET ms == T[o].members
        n == Len(ms)
        end(k) == ms[k].offset + T[ms[k].type_num].byte_size
        gaps == {k \in 1..(n - 1) : ms[k + 1].offset - end(k) > 0}
        trailing == T[o].byte_size - end(n) > 0
        inter == Cardinality(gaps)
    IN /\ Len(pads) = inter + (IF trailing THEN 1 ELSE 0)
       /\ \A j \in 1..inter :
             /\ pads[j].prev_field \in gaps
             /\ pads[j].next_field = pads[j].prev_field + 1
       /\ \A j \in 1..(inter - 1) : pads[j].prev_field < pads[j + 1].prev_field
       /\ trailing => pads[Len(pads)] = PaddingDetails(n, 0)

\* C10: the gap list of a Finalized struct with at least one field is, in
\* field order, one record per adjacent pair whose gap is above 0, then one
\* trailing record iff the trailing gap is above 0. It is stated for the
\* registries without a cycle, once the resolver has run without error.
C10_GapList ==
    (ResolutionCompleted /\ ~HasCycle(types)) =>
        \A o \in Structs(types) :
            Len(types[o].members) > 0
                => /\ get_padding_list(types, o).err = "none"
                   /\ GapListRule(types, o, get_padding_list(types, o).pads)

\* The next step is the top-level loop's finalize of types[o].
TopCall(o) ==
    /\ Running /\ phase = "resolve" /\ stack = << >> /\ i <= Len(keys)
    /\ o = keys[perm[i]]

\* The next step is the finalize of types[o] as the type of a struct member.
MemberCall(o) ==
    /\ Running /\ stack # << >>
    /\ types[Top.node].kind = "Struct"
    /\ Top.idx <= Len(types[Top.node].members)
    /\ o = types[Top.node].members[Top.idx].type_num

\* C11: finalize on a node that is already Finalized is a no-op: no node of
\* the registry changes (state, byte_size, bound references), no do_finalize
\* is called, no exception is raised, and the caller goes on: the top-level
\* loop to its next type, the struct to its next member. The registry being
\* unchanged, byte_size and has_padding read afterwards are those read before.
C11_FinalizedNoOp ==
    [][\A o \in DOMAIN types :
          types[o].state = STATE_FINALIZED =>
              /\ TopCall(o) =>
                    /\ types' = types /\ calls' = calls /\ err' = err
                    /\ stack' = << >> /\ i' = i + 1
              /\ MemberCall(o) =>
                    /\ types' = types /\ calls' = calls /\ err' = err
                    /\ stack' = [stack EXCEPT ![Len(stack)].idx = @ + 1]]_vars

\* The top-level loop has passed the second type, which the struct before it
\* had resolved as the type of its member.
C11_Witness ==
    /\ err = "none" /\ phase = "resolve" /\ stack = << >> /\ i = 3
    /\ types[keys[1]].kind = "Struct"
    /\ keys[2] \in Targets(types, keys[1])
    /\ calls[keys[2]] = 1
    /\ types[keys[2]].state = STATE_FINALIZED

\* C12: after a resolver run without error a typedef whose alias is a struct
\* that has padding has padding too, and has the byte_size of the struct,
\* whether the typedef or the struct comes first in the registry.
C12_TypedefOfPaddedStruct ==
    ResolutionCompleted =>
        \A o \in Typedefs(types) :
            (types[types[o].alias].kind = "Struct"
             /\ HasPadding(types, types[o].alias) = "True")
                => /\ HasPadding(types, o) = "True"
                   /\ types[o].byte_size = types[types[o].alias].byte_size

\* A typedef resolved before the padded struct it aliases.
C12_Witness ==
    /\ ResolutionCompleted
    /\ \E o \in Typedefs(types) :
          /\ types[o].alias > o
          /\ types[types[o].alias].kind = "Struct"
          /\ HasPadding(types, types[o].alias) = "True"
          /\ types[o].byte_size > 0

\* C13: after a resolver run without error an array whose item type has
\* padding has padding too, and its own gap list is empty.
C13_ArrayOfPaddedItem ==
    ResolutionCompleted =>
        \A o \in Arrays(types) :
            HasPadding(types, types[o].item_type) = "True"
                => /\ HasPadding(types, o) = "True"
                   /\ get_padding_list(types, o) = [err |-> "none", pads |-> << >>]

\* An array resolved before the padded struct that is its item type.
C13_Witness ==
    /\ ResolutionCompleted
    /\ \E o \in Arrays(types) :
          /\ types[o].item_type > o
          /\ types[types[o].item_type].kind = "Struct"
          /\ HasPadding(types, types[o].item_type) = "True"

\* The nodes with a reference to an offset that has no node in the registry.
Dangling(T) == {o \in DOMAIN T : ~(Targets(T, o) \subseteq DOMAIN T)}

\* C14 as stated: with an unresolvable reference in the registry the resolver
\* run fails with the lookup failure (KeyError); the offending type is never
\* Finalized.
C14_DanglingLookupError ==
    Dangling(types) # {} =>
        /\ phase = "resolve"
        /\ err \in {"none", "KeyError"}
        /\ \A o \in Dangling(types) : types[o].state # STATE_FINALIZED

\* Structs, primitives and typedefs only, and no reference cycle: finalize
\* can raise nothing but the lookup failure.
OnlyLookupCanFail(T) ==
    /\ \A o \in DOMAIN T : T[o].kind \in {"Struct", "Primitive", "Typedef"}
    /\ ~HasCycle(T)

\* C14, amended: with an unresolvable reference in the registry the resolver
\* run never completes: it ends with an exception finalize raises, which is
\* the lookup failure when no other node of the registry can raise another;
\* the offending type is never Finalized, and its reference never bound.
C14_DanglingNeverResolved ==
    Dangling(types) # {} =>
        /\ phase = "resolve"
        /\ err \in {"none", "KeyError", "RuntimeError", "AssertionError", "TypeError"}
        /\ OnlyLookupCanFail(types) => err \in {"none", "KeyError"}
        /\ \A o \in Dangling(types) :
              types[o].state # STATE_FINALIZED /\ ~types[o].bound

\* The lookup failure raised by a typedef that a struct reached as the type of
\* its member: both are left InProcess.
C14_Witness ==
    /\ err = "KeyError"
    /\ OnlyLookupCanFail(types)
    /\ Len(stack) = 2
    /\ Top.node \in Dangling(types)
    /\ types[Top.node].kind = "Typedef"
    /\ types[Top.node].state = STATE_IN_PROCESS
    /\ types[stack[1].node].state = STATE_IN_PROCESS

\* The run was ended by an exception of the resolver: the cycle error, the
\* assert of an array without dimensions, or the lookup failure.
StructuralFailure ==
    phase = "resolve" /\ err \in {"RuntimeError", "AssertionError", "KeyError"}

\* C15: a run ended by a structural failure (cycle, array without
\* dimensions, unresolvable reference) has printed no size-table row and no
\* padding diagnostic line, for the failing compile unit or any other.
C15_FailureNoReport ==
    StructuralFailure => \A k \in DOMAIN out : out[k].text \notin ReportLines

\* C16: whenever a node is Finalized, every node it references is in the
\* registry and Finalized too: no node becomes Finalized while one of its
\* targets is still Initial or InProcess.
C16_DependenciesFirst ==
    \A o \in DOMAIN types :
        types[o].state = STATE_FINALIZED =>
            \A t \in Targets(types, o) :
                t \in DOMAIN types /\ types[t].state = STATE_FINALIZED

\* The resolver's recursion is bounded by the registry: no node has two
\* active finalize calls.
FinalizeBounded == Len(stack) <= Cardinality(DOMAIN types)

\* The has_padding evaluation of types[o] returns or raises after finitely
\* many calls: it does not recurse without end.
HasPaddingTerminates(T, o) == HasPadding(T, o) # "RecursionError"

\* C17: the pipeline of a compile unit terminates: the recursion of the
\* resolver is bounded by the registry, and after a resolver run without
\* error the has_padding evaluation of every node terminates.
C17_PipelineTerminates ==
    /\ FinalizeBounded
    /\ ResolutionCompleted =>
          \A o \in DOMAIN types : HasPaddingTerminates(types, o)

\* C18: during a resolver run do_finalize of a node (the binding of its
\* references and the computation of its size) is called at most once, and
\* exactly once when the run completes without error, however many nodes
\* reference it and although the top-level loop visits it too.
C18_ResolvedOnce ==
    /\ \A o \in DOMAIN calls : calls[o] <= 1
    /\ \A o \in DOMAIN types : types[o].state = STATE_FINALIZED => calls[o] = 1
    /\ ResolutionCompleted => \A o \in DOMAIN types : calls[o] = 1

\* A diamond: two structs with a member of the same typedef type, resolved
\* without error.
C18_Witness ==
    /\ ResolutionCompleted
    /\ \E a \in Structs(types) : \E b \in Structs(types) \ {a} :
          \E t \in Typedefs(types) :
              /\ t \in Targets(types, a) /\ t \in Targets(types, b)
              /\ a < t /\ b < t /\ types[t].byte_size # None /\ ~HasCycle(types)
              /\ calls[t] = 1 /\ calls[a] = 1 /\ calls[b] = 1

\* C19: the state of a node only moves Initial -> InProcess -> Finalized. A
\* node enters the registry Initial and stays in it; its state changes only
\* by a finalize of that node: to InProcess at the call, to Finalized when
\* the call at the top of the stack returns; and when the top-level loop
\* ends without error every node is Finalized.
C19_StateForward ==
    [][/\ \A o \in DOMAIN types :
             /\ o \in DOMAIN types'
             /\ types'[o].state # types[o].state =>
                   \/ /\ types[o].state = STATE_INITIAL
                      /\ types'[o].state = STATE_IN_PROCESS
                      /\ TopCall(o) \/ MemberCall(o)
                   \/ /\ types[o].state = STATE_IN_PROCESS
                      /\ types'[o].state = STATE_FINALIZED
                      /\ stack # << >> /\ Top.node = o /\ stack' = Pop(stack)
       /\ \A o \in DOMAIN types' \ DOMAIN types : types'[o].state = STATE_INITIAL
       /\ (phase = "resolve" /\ phase' = "table") =>
             \A o \in DOMAIN types : types[o].state = STATE_FINALIZED]_vars

\* The three states at once: a struct InProcess, its member type Finalized,
\* a later type still Initial.
C19_Witness ==
    /\ stack # << >>
    /\ types[Top.node].kind = "Struct"
    /\ types[Top.node].state = STATE_IN_PROCESS
    /\ \E t \in Targets(types, Top.node) \cap DOMAIN types :
          types[t].state = STATE_FINALIZED
    /\ \E o \in DOMAIN types : types[o].state = STATE_INITIAL

\* C20 as stated: after a resolver run without error, a struct with at least
\* one field and a non-empty gap list has padding.
C20_GapsImplyFlag ==
    ResolutionCompleted =>
        \A o \in Structs(types) :
            (/\ Len(types[o].members) > 0
             /\ get_padding_list(types, o).err = "none"
             /\ get_padding_list(types, o).pads # << >>)
                => HasPadding(types, o) = "True"

\* No gap of the struct is negative: each member starts at or after the end
\* of the one before, and the last one ends within the declared size.
NoNegativeGap(T, o) ==
    LET ms == T[o].members
    IN /\ Len(ms) > 0
       /\ ~SumRaises(T, ms)
       /\ \A k \in 1..(Len(ms) - 1) : PadSize(T, ms, k) >= 0
       /\ TrailingPadSize(T, o) >= 0

\* C20, amended: after a resolver run without error, a struct with at least
\* one field, no negative gap and a non-empty gap list has padding.
C20_OrderedGapsImplyFlag ==
    ResolutionCompleted =>
        \A o \in Structs(types) :
            (/\ NoNegativeGap(types, o)
             /\ get_padding_list(types, o).err = "none"
             /\ get_padding_list(types, o).pads # << >>)
                => HasPadding(types, o) = "True"

\* A struct of two members in order whose only gap is the one between them.
C20_Witness ==
    /\ ResolutionCompleted
    /\ \E o \in Structs(types) :
          /\ NoNegativeGap(types, o)
          /\ get_padding_list(types, o) =
                 [err |-> "none", pads |-> <<PaddingDetails(1, 2)>>]
          /\ HasPadding(types, o) = "True"

====
